---- MODULE Spec2Model ----
(***************************************************************************)
(* Model of the archive.org -> Telegram channel bot (bot.py,               *)
(* archive_handler.py, telegram_handler.py).                               *)
(*                                                                         *)
(* The bot runs on one asyncio event loop: the code between two awaits is  *)
(* atomic, and every await is a point where another handler invocation     *)
(* may run.  A handler invocation is a task with a position (pc); one      *)
(* action of the model runs a task from the completion of one await to     *)
(* the next await (or to the handler's end).  The outcome of an awaited    *)
(* network call (a value, or an exception) is chosen when the task         *)
(* resumes.                                                                *)
(*                                                                         *)
(* mode = "program": the handlers of bot.py call the ArchiveOrgHandler and *)
(* the TelegramChannelHandler of archive_handler.py and                    *)
(* telegram_handler.py, and a call binds to the signature found there.     *)
(* mode = "handler": the handlers of bot.py run against collaborators that *)
(* take the calls as bot.py makes them and answer with any outcome the     *)
(* call site provides for (a value, nothing, an exception).                *)
(* mode = "publish": handle_callback, one invocation, with the upload_file *)
(* of telegram_handler.py behind channel_handler.upload_file.              *)
(* mode = "upload", mode = "tag": upload_file, and the tagging calls, are  *)
(* called on their own.  mode = "unit": one method of ArchiveOrgHandler,   *)
(* or the cover loop of handle_callback, is run on its own.                *)
(***************************************************************************)
EXTENDS Integers, Sequences, FiniteSets, TLC

VARIABLES mode, user_sessions, tasks, channel, requests, up, tag, unit, elapsed

vars == <<mode, user_sessions, tasks, channel, requests, up, tag, unit, elapsed>>

(***************************************************************************)
(* Bounds of the model.                                                    *)
(***************************************************************************)
NumUsers == 2
MaxTasks == 3
MaxPresses == 2
MaxFloodSeconds == 2
RecursionLimit == 3
MaxChunks == 3
MaxFiles == 3
MaxPathLen == 5

Users == 1..NumUsers
TaskIds == 1..MaxTasks

(***************************************************************************)
(* Catalog items (the JSON a metadata request returns).  A file name is    *)
(* stem ++ mark ++ "." ++ ext; mark is the part of the name the            *)
(* non-payload suffixes are recognised by.                                 *)
(***************************************************************************)
File(stem, mark, ext, size) ==
    [stem |-> stem, mark |-> mark, ext |-> ext, size |-> size]

Catalog ==
    [album   |-> <<File("01 Track", "", "flac", 40000),
                   File("02 Track", "", "flac", 40000),
                   File("notes", "", "txt", 2000)>>,
     covered |-> <<File("01 Song", "", "mp3", 5000),
                   File("cover", "", "jpg", 50000)>>,
     tiny    |-> <<File("thumb", "", "jpg", 500),
                   File("tiny", "_meta", "xml", 300)>>]

Items == DOMAIN Catalog

(***************************************************************************)
(* ArchiveOrgHandler.get_available_formats                                 *)
(***************************************************************************)
format_categories ==
    << [label |-> "FLAC",    exts |-> {"flac"}],
       [label |-> "MP3",     exts |-> {"mp3"}],
       [label |-> "WAV",     exts |-> {"wav"}],
       [label |-> "OGG",     exts |-> {"ogg", "oga"}],
       [label |-> "MP4",     exts |-> {"mp4", "m4v"}],
       [label |-> "MKV",     exts |-> {"mkv"}],
       [label |-> "AVI",     exts |-> {"avi"}],
       [label |-> "PDF",     exts |-> {"pdf"}],
       [label |-> "EPUB",    exts |-> {"epub"}],
       [label |-> "TXT",     exts |-> {"txt"}],
       [label |-> "JPG",     exts |-> {"jpg", "jpeg"}],
       [label |-> "PNG",     exts |-> {"png"}],
       [label |-> "GIF",     exts |-> {"gif"}],
       [label |-> "ZIP",     exts |-> {"zip"}],
       [label |-> "TORRENT", exts |-> {"torrent"}] >>

MinPayloadSize == 1024

\* a test that knows the .xml suffixes only
IsMetadataFile_xml_only(f) ==
    \/ f.mark = "_meta"  /\ f.ext = "xml"
    \/ f.mark = "_files" /\ f.ext = "xml"

\* file_name.endswith(('_meta.xml', '_files.xml', '_chocr.html', '_djvu.txt'))
IsMetadataFile(f) ==
    \/ f.mark = "_meta"  /\ f.ext = "xml"
    \/ f.mark = "_files" /\ f.ext = "xml"
    \/ f.mark = "_chocr" /\ f.ext = "html"
    \/ f.mark = "_djvu"  /\ f.ext = "txt"

\* the first label of the table whose extensions hold ext, or "" when none does
CategoryOf(ext) ==
    LET hits == {k \in 1..Len(format_categories) : ext \in format_categories[k].exts}
    IN  IF hits = {} THEN ""
        ELSE format_categories[CHOOSE k \in hits : \A j \in hits : k <= j].label

\* an append that makes a new group for every file
AppendToFormat_new_group(formats, label, f) ==
    Append(formats, [label |-> label, files |-> <<f>>])

\* formats[format_name].append(file_info), creating the key when it is new
AppendToFormat(formats, label, f) ==
    IF \E k \in 1..Len(formats) : formats[k].label = label
    THEN [k \in 1..Len(formats) |->
            IF formats[k].label = label
            THEN [formats[k] EXCEPT !.files = Append(@, f)]
            ELSE formats[k]]
    ELSE Append(formats, [label |-> label, files |-> <<f>>])

\* file_info.get('name', ''): an entry without a name has the empty name
HasName(f) == ~(f.stem = "" /\ f.mark = "" /\ f.ext = "")

\* int(file_info.get('size', 0))
SizeOf(f) == IF "size" \in DOMAIN f THEN f.size ELSE 0

\* str.lower() of an extension
lower(ext) ==
    CASE ext = "FLAC" -> "flac"
      [] ext = "MP3" -> "mp3"
      [] ext = "TXT" -> "txt"
      [] ext = "JPG" -> "jpg"
      [] ext = "PNG" -> "png"
      [] OTHER -> ext

RECURSIVE ClassifyFiles(_, _)
ClassifyFiles(files, formats) ==
    IF files = <<>> THEN formats
    ELSE LET f == Head(files)
             label == CategoryOf(lower(f.ext))
         IN  IF ~HasName(f) \/ IsMetadataFile(f) \/ SizeOf(f) < MinPayloadSize \/ label = ""
             THEN ClassifyFiles(Tail(files), formats)
             ELSE ClassifyFiles(Tail(files), AppendToFormat(formats, label, f))

\* sorted(formats.items(), key=lambda x: len(x[1]), reverse=True): a stable sort
RECURSIVE SortByCount(_, _)
SortByCount(formats, sorted) ==
    IF formats = <<>> THEN sorted
    ELSE LET g == Head(formats)
             before == {k \in 1..Len(sorted) : Len(sorted[k].files) >= Len(g.files)}
             n == Cardinality(before)
         IN  SortByCount(Tail(formats),
                 SubSeq(sorted, 1, n) \o <<g>> \o SubSeq(sorted, n + 1, Len(sorted)))

get_available_formats(files) == SortByCount(ClassifyFiles(files, <<>>), <<>>)

\* formats.get(format_name, [])
FilesOfFormat(formats, label) ==
    IF \E k \in 1..Len(formats) : formats[k].label = label
    THEN formats[CHOOSE k \in 1..Len(formats) : formats[k].label = label].files
    ELSE <<>>

FormatLabels == {format_categories[k].label : k \in 1..Len(format_categories)}


(***************************************************************************)
(* ArchiveOrgHandler.extract_identifier and get_metadata.  A URL is given  *)
(* by the parts of its path, parsed.path.strip('/').split('/'): an empty   *)
(* path gives the one part "".                                             *)
(***************************************************************************)
NoneId == "<None>"

extract_identifier(path_parts) ==
    LET at == {k \in 1..Len(path_parts) : path_parts[k] = "details"}
        idx == CHOOSE k \in at : \A j \in at : k <= j
    IN  IF at # {} /\ idx + 1 <= Len(path_parts) THEN path_parts[idx + 1]
        ELSE IF Len(path_parts) = 1 /\ path_parts[1] # "" THEN path_parts[1]
        ELSE NoneId

NoMetadata == "<None>"

\* what get_metadata can return for a URL: no metadata (no identifier, a status
\* other than 200, an exception, or the empty JSON of an unknown item), or the item
MetadataResults(path_parts) ==
    LET identifier == extract_identifier(path_parts)
    IN  IF identifier \in Items THEN {NoMetadata, identifier} ELSE {NoMetadata}

(***************************************************************************)
(* A method run on its own: the call, where it is, and what it returned.   *)
(***************************************************************************)
IdleUnit == [fn |-> "", pc |-> "idle"]

UnitFrame == UNCHANGED <<mode, user_sessions, tasks, channel, requests, up, tag, elapsed>>

(***************************************************************************)
(* get_available_formats run on the file list of an item.                  *)
(***************************************************************************)
\* an entry of a file list without a size
Unsized(f) == [k \in (DOMAIN f) \ {"size"} |-> f[k]]

\* the entries the file lists are drawn from
FilePool ==
    {File("01 Track", "", "flac", 40000),
     File("02 Track", "", "FLAC", 50000),
     File("01 Song", "", "mp3", 5000),
     File("intro", "", "mp3", 500),
     File("notes", "", "txt", 2000),
     File("scan", "_djvu", "txt", 5000),
     File("scan", "_DJVU", "TXT", 5000),
     File("item", "_meta", "xml", 3000),
     File("cover", "", "jpg", 1024),
     Unsized(File("thumb", "", "jpg", 0)),
     File("data", "", "bin", 9000),
     File("", "", "", 9000)}

RECURSIVE FileLists(_)
FileLists(n) ==
    IF n = 0 THEN {<<>>}
    ELSE FileLists(n - 1) \cup {Append(l, f) : l \in {m \in FileLists(n - 1) : Len(m) = n - 1},
                                               f \in FilePool}

GetAvailableFormats(files) ==
    /\ mode = "unit"
    /\ unit.pc = "input"
    /\ unit' = [fn |-> "get_available_formats", pc |-> "done", files |-> files,
                formats |-> get_available_formats(files)]
    /\ UnitFrame

(***************************************************************************)
(* extract_identifier run on a URL.  The path of the URL is a sequence of  *)
(* tokens, "/" or a run of other characters; urlparse either gives the     *)
(* path or raises ValueError, which the except clause turns into None.     *)
(***************************************************************************)
PathTokens == {"/", "details", "album", "tracks"}

RECURSIVE Paths(_)
Paths(n) ==
    IF n = 0 THEN {<<>>}
    ELSE Paths(n - 1) \cup
         {Append(p, t) : p \in {q \in Paths(n - 1) : Len(q) = n - 1},
                         t \in PathTokens}

\* two runs of characters are never adjacent: they would be one run
WellFormed(path) ==
    \A k \in 1..(Len(path) - 1) : path[k] = "/" \/ path[k + 1] = "/"

\* str.strip('/')
RECURSIVE lstrip(_)
lstrip(path) ==
    IF path # <<>> /\ Head(path) = "/" THEN lstrip(Tail(path)) ELSE path

RECURSIVE rstrip(_)
rstrip(path) ==
    IF path # <<>> /\ path[Len(path)] = "/"
    THEN rstrip(SubSeq(path, 1, Len(path) - 1)) ELSE path

strip(path) == rstrip(lstrip(path))

\* str.split('/'): the segments between the slashes, "" for an empty one
RECURSIVE split(_, _)
split(path, segment) ==
    IF path = <<>> THEN <<segment>>
    ELSE IF Head(path) = "/" THEN <<segment>> \o split(Tail(path), "")
    ELSE split(Tail(path), Head(path))

ExtractIdentifier(path, parses) ==
    /\ mode = "unit"
    /\ unit.pc = "input"
    /\ LET path_parts == split(strip(path), "")
       IN  unit' = [fn |-> "extract_identifier", pc |-> "done", path |-> path,
                    parses |-> parses,
                    path_parts |-> IF parses THEN path_parts ELSE <<>>,
                    raised |-> FALSE,
                    result |-> IF parses THEN extract_identifier(path_parts) ELSE NoneId]
    /\ UnitFrame

(***************************************************************************)
(* ArchiveOrgHandler.download_file_stream.  The body of a response comes   *)
(* in chunks; every await (the GET, each chunk) returns or raises.         *)
(***************************************************************************)
Statuses == {200, 206, 404, 500}

BodyLengths == 0..MaxChunks

\* a call that hands on whatever was written when a chunk fails
DownloadEnds_partial(u, how) ==
    [u EXCEPT !.pc = "done",
              !.result = IF how = "end" \/ u.written > 0 THEN "stream" ELSE "None",
              !.error = (how = "raise")]

\* the call returns: the stream after the last chunk, None from the except clause
DownloadEnds(u, how) ==
    [u EXCEPT !.pc = "done",
              !.result = IF how = "end" THEN "stream" ELSE "None",
              !.error = (how = "raise")]

\* the call runs to session.get, or returns None for a missing argument
DownloadFileStream(identifier, file_name) ==
    /\ mode = "unit"
    /\ unit.pc = "input"
    /\ LET u == [fn |-> "download_file_stream", pc |-> "get", identifier |-> identifier,
                 file_name |-> file_name, requests |-> 0, status |-> 0, length |-> 0,
                 written |-> 0, error |-> FALSE, result |-> ""]
       IN  unit' = IF identifier = "" \/ file_name = ""
                   THEN [u EXCEPT !.pc = "done", !.result = "None"]
                   ELSE [u EXCEPT !.requests = 1]
    /\ UnitFrame

\* session.get is over: it raised, or there is a response with a status and a
\* body of some length
DfsResponse(out, status, length) ==
    /\ unit.fn = "download_file_stream"
    /\ unit.pc = "get"
    /\ unit' = IF out = "raise" THEN DownloadEnds(unit, "raise")
               ELSE IF status # 200
               THEN [unit EXCEPT !.pc = "done", !.status = status, !.result = "None"]
               ELSE [unit EXCEPT !.pc = "body", !.status = status, !.length = length]
    /\ UnitFrame

\* the next chunk of the body is over: written to the buffer, or the connection
\* failed, or the body has ended
DfsChunk(out) ==
    /\ unit.fn = "download_file_stream"
    /\ unit.pc = "body"
    /\ unit' = IF out = "raise" THEN DownloadEnds(unit, "raise")
               ELSE IF unit.written < unit.length
               THEN [unit EXCEPT !.written = @ + 1]
               ELSE DownloadEnds(unit, "end")
    /\ UnitFrame

DownloadStep ==
    \/ \E identifier \in {"", "album", "covered"}, file_name \in {"", "01 Track.flac", "cover.jpg"} :
           DownloadFileStream(identifier, file_name)
    \/ \E out \in {"response", "raise"}, status \in Statuses, length \in BodyLengths :
           DfsResponse(out, status, length)
    \/ \E out \in {"chunk", "raise"} : DfsChunk(out)

(***************************************************************************)
(* What the users send.                                                    *)
(***************************************************************************)
NoArgument == <<>>

\* the text after "/download ": nothing, or the path of a URL
Texts == {NoArgument, <<"details", "album">>, <<"details", "covered">>, <<"tiny">>}

\* the data of a pressed button: "cancel", or "format_" + label
Button(kind, label) == [kind |-> kind, label |-> label]

Buttons ==
    {Button("cancel", ""), Button("format", "FLAC"), Button("format", "MP3"),
     Button("format", "TXT")}

(***************************************************************************)
(* Python's binding of a call to a signature: params are the parameters    *)
(* after self, the first `required` of them have no default; the call      *)
(* passes npos positional arguments and the keyword arguments kwargs.      *)
(* A call that does not bind raises TypeError.                             *)
(***************************************************************************)
CallBinds(params, required, npos, kwargs) ==
    /\ npos <= Len(params)
    /\ kwargs \subseteq {params[k] : k \in (npos + 1)..Len(params)}
    /\ \A k \in 1..required : k <= npos \/ params[k] \in kwargs

\* def download_file_stream(self, identifier: str, file_name: str)
download_file_stream_params == <<"identifier", "file_name">>

\* a binding that accepts the call whatever its shape
DownloadCallBinds_any == TRUE

\* self.archive_handler.download_file_stream(file_info): one positional argument
DownloadCallBinds == CallBinds(download_file_stream_params, 2, 1, {})

\* the attributes ArchiveOrgHandler.__init__ sets
ArchiveOrgHandlerAttrs == {"base_url", "metadata_endpoint", "download_endpoint", "session"}

\* f.get("name", "").lower().endswith((".jpg", ".jpeg", ".png"))
IsImageName(f) == lower(f.ext) \in {"jpg", "jpeg", "png"}

\* the first entry of the item's file list that the cover loop stops at (0: none)
FirstImage(files) ==
    LET at == {k \in 1..Len(files) : IsImageName(files[k])}
    IN  IF at = {} THEN 0 ELSE CHOOSE k \in at : \A j \in at : k <= j

(***************************************************************************)
(* The cover loop of handle_callback run on the file list of an item: the  *)
(* position of the file it asks download_file_stream for, 0 when it asks   *)
(* for none.                                                               *)
(***************************************************************************)
CoverPool ==
    {File("thumb", "", "png", 3000),
     File("scan", "", "JPG", 90000),
     File("cover", "", "jpg", 50000),
     File("Folder", "", "JPG", 50000),
     File("01 Song", "", "mp3", 5000),
     File("item", "_meta", "xml", 3000)}

RECURSIVE CoverLists(_)
CoverLists(n) ==
    IF n = 0 THEN {<<>>}
    ELSE CoverLists(n - 1) \cup {Append(l, f) : l \in {m \in CoverLists(n - 1) : Len(m) = n - 1},
                                                 f \in CoverPool}

ChooseCover(files) ==
    /\ mode = "unit"
    /\ unit.pc = "input"
    /\ unit' = [fn |-> "cover", pc |-> "done", files |-> files,
                chosen |-> FirstImage(files)]
    /\ UnitFrame

(***************************************************************************)
(* The state: the session store, the handler invocations, the channel,     *)
(* and the download requests sent to the catalog.                          *)
(***************************************************************************)
EmptyStore == [u \in {} |-> 0]

Session(url, metadata, message_id) ==
    [url |-> url, metadata |-> metadata, message_id |-> message_id]

\* del self.user_sessions[user_id]
DelSession(store, u) == [v \in (DOMAIN store) \ {u} |-> store[v]]

\* self.user_sessions[user_id] = session
PutSession(store, u, session) ==
    [v \in (DOMAIN store) \cup {u} |-> IF v = u THEN session ELSE store[v]]

NoCancel == 0 - 1

\* the local variable session of a handler that has not read the store
NoSession == Session(<<>>, NoMetadata, 0)

IdleTask ==
    [h |-> "idle", user |-> 0, pc |-> "idle", url |-> <<>>, data |-> Button("", ""),
     pending |-> "", shown |-> "", files |-> <<>>, i |-> 0, status |-> <<>>,
     cover |-> FALSE, open |-> 0, passed |-> {}, session |-> NoSession,
     hadSession |-> FALSE, started |-> FALSE, extFailed |-> FALSE,
     cancelAt |-> NoCancel]

\* the channel's messages, and the download requests, by the handler invocation
\* that sent them, each in the order sent
InitBot ==
    /\ tasks = [t \in TaskIds |-> IdleTask]
    /\ channel = [t \in TaskIds |-> <<>>]
    /\ requests = [t \in TaskIds |-> <<>>]

\* a new handler invocation takes the lowest free task
IsFree(t) ==
    /\ tasks[t].h = "idle"
    /\ \A s \in TaskIds : s < t => tasks[s].h # "idle"
    /\ mode = "handler" => t <= MaxPresses
    /\ mode = "publish" => t = 1

At(t, pc) == tasks[t].h # "idle" /\ tasks[t].pc = pc

SetTask(t, r) == tasks' = [tasks EXCEPT ![t] = r]

\* the handler returns, or an exception leaves it
Return(tk) == [IdleTask EXCEPT !.h = tk.h, !.pc = "done"]

\* an awaited call, after which the handler shows `pending` when it succeeds
Await(tk, pc, pending) == [tk EXCEPT !.pc = pc, !.pending = pending]

Shown(tk) == [tk EXCEPT !.shown = tk.pending]

\* a call to Telegram or to the catalog failed (noted for the program only)
Failed(tk) == IF mode = "program" THEN [tk EXCEPT !.extFailed = TRUE] ELSE tk


(***************************************************************************)
(* ArchiveTelegramBot.handle_download_command                              *)
(***************************************************************************)
\* the handler starts: split the text, answer a missing URL, or send "Fetching"
DownloadCommand(t, u, text) ==
    /\ IsFree(t)
    /\ LET tk == [IdleTask EXCEPT !.h = "download", !.user = u, !.url = text]
       IN  IF text = NoArgument
           THEN SetTask(t, Await(tk, "dl_respond_usage", "usage"))
           ELSE SetTask(t, Await(tk, "dl_respond_fetching", "fetching"))
    /\ UNCHANGED <<unit, up, tag, mode, user_sessions, channel, requests, elapsed>>

\* event.respond(usage) is over: the handler returns (or its exception leaves it)
DlRespondUsage(t, ok) ==
    /\ At(t, "dl_respond_usage")
    /\ SetTask(t, Return(IF ok THEN Shown(tasks[t]) ELSE tasks[t]))
    /\ UNCHANGED <<unit, up, tag, mode, user_sessions, channel, requests, elapsed>>

\* event.respond("Fetching ...") is over: outside the try, so an exception leaves
\* the handler; otherwise get_metadata is awaited
DlRespondFetching(t, ok) ==
    /\ At(t, "dl_respond_fetching")
    /\ SetTask(t, IF ok THEN Await(Shown(tasks[t]), "dl_get_metadata", "")
                        ELSE Return(tasks[t]))
    /\ UNCHANGED <<unit, up, tag, mode, user_sessions, channel, requests, elapsed>>

\* get_metadata returned: store the session, list the formats, edit the message
DlGetMetadata(t, metadata) ==
    /\ At(t, "dl_get_metadata")
    /\ metadata \in MetadataResults(tasks[t].url)
    /\ IF metadata = NoMetadata
       THEN /\ SetTask(t, Await(tasks[t], "dl_edit", "unable"))
            /\ UNCHANGED user_sessions
       ELSE /\ user_sessions' =
                   PutSession(user_sessions, tasks[t].user, Session(tasks[t].url, metadata, t))
            /\ IF get_available_formats(Catalog[metadata]) = <<>>
               THEN SetTask(t, Await(tasks[t], "dl_edit", "no_formats"))
               ELSE SetTask(t, Await(tasks[t], "dl_edit", "buttons"))
    /\ UNCHANGED <<unit, up, tag, mode, channel, requests, elapsed>>

\* processing_msg.edit(...) inside the try is over: return, or the except clause
\* edits the message to the error text
DlEdit(t, ok) ==
    /\ At(t, "dl_edit")
    /\ SetTask(t, IF ok THEN Return(Shown(tasks[t]))
                        ELSE Await(tasks[t], "dl_edit_error", "error"))
    /\ UNCHANGED <<unit, up, tag, mode, user_sessions, channel, requests, elapsed>>

\* the except clause's processing_msg.edit is over
DlEditError(t, ok) ==
    /\ At(t, "dl_edit_error")
    /\ SetTask(t, Return(IF ok THEN Shown(tasks[t]) ELSE tasks[t]))
    /\ UNCHANGED <<unit, up, tag, mode, user_sessions, channel, requests, elapsed>>

(***************************************************************************)
(* Audio streams and the tagging calls.  A stream is what the tagging      *)
(* library sees in it: the container, the tags, the pictures, and whether  *)
(* a save that failed part-way left it torn.  Two streams hold the same    *)
(* bytes exactly when they are equal.                                      *)
(***************************************************************************)
\* a text is a sequence of tokens: the parts of a date and the separators
\* between them, or one token for a text that is no date
NoTags == [k \in {} |-> <<>>]

\* the tags of a file that was tagged before
StaleTags(kind) == IF kind = "mp3"
                   THEN [TIT2 |-> <<"old">>, TDRC |-> <<"1900">>]
                   ELSE [title |-> <<"old">>, date |-> <<"1900">>]

\* a picture of type 3 (front cover); data names the image whose bytes it holds
Picture(desc, mime, data) == [type |-> 3, desc |-> desc, mime |-> mime, data |-> data]

Stream(kind, tags, pictures) ==
    [kind |-> kind, tags |-> tags, pictures |-> pictures, torn |-> FALSE]

\* the cover image handed to the tagging calls: none, or its format
Covers == {"", "jpeg", "png"}

\* the streams a download can return: tagged or not, with a picture or not,
\* or bytes that are no audio at all
Streams ==
    UNION {{Stream(kind, tags, pictures) :
                tags \in {NoTags, StaleTags(kind)},
                pictures \in {<<>>, <<Picture("", "image/png", "old")>>}} :
           kind \in {"mp3", "flac", "ogg", "wav", "junk"}}

SetTags(tags, new) ==
    [k \in (DOMAIN tags) \cup (DOMAIN new) |-> IF k \in DOMAIN new THEN new[k] ELSE tags[k]]

\* the library opens a stream of its own container that is whole
Parses(stream, kind) == stream.kind = kind /\ ~stream.torn

\* a save can raise before it has written anything, or after it has written a
\* part of the new bytes
SaveFaults == {"none", "before_write", "during_write"}

\* audio.save(file_stream): the stream is rewritten where it is
Save(stream, tagged, fault) ==
    CASE fault = "none" -> tagged
      [] fault = "before_write" -> stream
      [] fault = "during_write" -> [stream EXCEPT !.torn = TRUE]

\* ID3.add keeps one frame per key, and the key of an APIC frame has its desc
AddFrame(pictures, p) == Append(SelectSeq(pictures, LAMBDA q : q.desc # p.desc), p)

\* dict.get(key, default)
Get(dict, key, default) == IF key \in DOMAIN dict THEN dict[key] ELSE default

\* the tokens that int() accepts, as the formats %04d and %02d print them
Numbers == {"1900", "1968", "05", "02", "00"}

Separators == {"-", "T", ":", "/", "."}

\* re.split("[-T:/.]|\\s+", text): the parts between the separators
RECURSIVE SplitParts(_)
SplitParts(text) ==
    IF text = <<>> THEN <<>>
    ELSE IF Head(text) \in Separators THEN SplitParts(Tail(text))
    ELSE <<Head(text)>> \o SplitParts(Tail(text))

\* ID3TimeStamp.get_text: the numeric parts up to the first part that is no
\* number, at most six, joined by "-", "-", " ", ":", ":"
TimeStampSeps == <<"-", "-", " ", ":", ":">>

RECURSIVE JoinParts(_, _)
JoinParts(parts, k) ==
    IF k > 6 \/ k > Len(parts) \/ parts[k] \notin Numbers THEN <<>>
    ELSE IF k < 6 /\ k < Len(parts) /\ parts[k + 1] \in Numbers
    THEN <<parts[k], TimeStampSeps[k]>> \o JoinParts(parts, k + 1)
    ELSE <<parts[k]>>

\* the text a TDRC frame holds: ID3TimeStamp(text).text
ID3TimeStamp(text) == JoinParts(SplitParts(text), 1)

\* os.path.splitext(file_info['name'])[0]
splitext(file_info) ==
    IF file_info.mark = "" THEN <<file_info.stem>> ELSE <<file_info.stem, file_info.mark>>

\* title, artist, album, year and track as add_metadata_to_audio takes them from
\* the file's entry and the item's metadata
TrackValues(file_info, item_metadata, track_num) ==
    [title  |-> Get(file_info, "title", splitext(file_info)),
     artist |-> Get(file_info, "creator",
                    Get(item_metadata, "creator", <<"Unknown Artist">>)),
     album  |-> Get(item_metadata, "title", <<"Unknown Album">>),
     year   |-> Get(item_metadata, "year", Get(item_metadata, "date", <<>>)),
     track  |-> Get(file_info, "track", track_num)]

ID3Frames(v) ==
    [TIT2 |-> v.title, TPE1 |-> v.artist, TALB |-> v.album, TDRC |-> ID3TimeStamp(v.year),
     TRCK |-> v.track]

VorbisComments(v) ==
    [title |-> v.title, artist |-> v.artist, album |-> v.album, date |-> v.year,
     tracknumber |-> v.track]

(***************************************************************************)
(* ArchiveTelegramBot.add_metadata_to_audio: the stream after the call.    *)
(* Every exception is caught by the except clause, which only seeks to 0.  *)
(***************************************************************************)
add_metadata_to_audio(file_stream, file_info, item_metadata, cover_bytes, track_num, format_name, fault) ==
    LET v == TrackValues(file_info, item_metadata, track_num)
    IN
    CASE format_name = "MP3" /\ Parses(file_stream, "mp3") ->
           Save(file_stream,
                [file_stream EXCEPT
                    !.tags = SetTags(@, ID3Frames(v)),
                    !.pictures = IF cover_bytes # ""
                                 THEN AddFrame(@, Picture("Cover", "image/jpeg", cover_bytes)) ELSE @],
                fault)
      [] format_name = "FLAC" /\ Parses(file_stream, "flac") ->
           Save(file_stream,
                [file_stream EXCEPT
                    !.tags = SetTags(@, VorbisComments(v)),
                    !.pictures = IF cover_bytes # ""
                                 THEN Append(@, Picture("", "image/jpeg", cover_bytes)) ELSE @],
                fault)
      [] format_name = "OGG" /\ Parses(file_stream, "ogg") ->
           Save(file_stream,
                [file_stream EXCEPT
                    !.tags = SetTags(@, VorbisComments(v)),
                    !.pictures = IF cover_bytes # ""
                                 THEN <<Picture("", "image/jpeg", cover_bytes)>> ELSE @],
                fault)
      \* WAVE: add_tags() raises when the file has tags, and the assignment of a
      \* str to audio.tags['INAM'] raises when it has none; save is not reached.
      \* Any other stream: the constructor raises.
      [] OTHER -> file_stream

(***************************************************************************)
(* TelegramChannelHandler.upload_file, the embedding of metadata: the      *)
(* stream bound to file_stream when send_file is called.                   *)
(***************************************************************************)
NoDict == [given |-> FALSE, album_art |-> ""]

\* the metadata argument: None, or a dict with title, creator, album and,
\* possibly, album_art
MetadataArgs == {NoDict} \cup {[given |-> TRUE, album_art |-> a] : a \in Covers}

ArtMime(album_art) == IF album_art = "png" THEN "image/png" ELSE "image/jpeg"

EmbeddedComments == [title |-> <<"title">>, artist |-> <<"creator">>, album |-> <<"album">>]

EmbeddedFrames == [TIT2 |-> <<"title">>, TPE1 |-> <<"creator">>, TALB |-> <<"album">>]

EmbedMetadata(file_stream, file_ext, metadata, fault) ==
    IF file_ext \in {"mp3", "flac"} /\ metadata.given
    THEN LET temp_file == file_stream
         IN  IF file_ext = "flac"
             THEN \* FLAC(temp_file) raises, or the object is falsy (it has no tags)
                  IF Parses(temp_file, "flac") /\ DOMAIN temp_file.tags # {}
                  THEN Save(temp_file,
                            [temp_file EXCEPT
                                !.tags = SetTags(@, EmbeddedComments),
                                !.pictures =
                                    IF metadata.album_art # ""
                                    THEN Append(@, Picture("", ArtMime(metadata.album_art),
                                                      metadata.album_art))
                                    ELSE @],
                            fault)
                  ELSE temp_file
             ELSE \* ID3(temp_file) raises on a damaged tag; without a tag a new one is made
                  IF temp_file.torn
                  THEN temp_file
                  ELSE Save(temp_file,
                            [temp_file EXCEPT
                                !.tags = SetTags(@, EmbeddedFrames),
                                !.pictures =
                                    IF metadata.album_art # ""
                                    THEN AddFrame(@, Picture("Cover", ArtMime(metadata.album_art),
                                                        metadata.album_art))
                                    ELSE @],
                            fault)
    ELSE file_stream

(***************************************************************************)
(* The tagging calls on their own: a stream is drawn, one of the two calls *)
(* is made on it, and the stream that goes on to send_file is kept.        *)
(***************************************************************************)
\* the except clause of add_metadata_to_audio is entered
TaggingRaises(file_stream, format_name, fault) ==
    \/ format_name = "WAV"
    \/ ~Parses(file_stream, IF format_name = "MP3" THEN "mp3"
                            ELSE IF format_name = "FLAC" THEN "flac" ELSE "ogg")
    \/ fault # "none"

\* one of the except clauses of the embedding is entered
EmbeddingRaises(file_stream, file_ext, fault) ==
    IF file_ext = "flac"
    THEN \/ ~Parses(file_stream, "flac")
         \/ DOMAIN file_stream.tags # {} /\ fault # "none"
    ELSE file_stream.torn \/ fault # "none"

\* the embedding of upload_file reaches a save, and the save succeeds
EmbeddingSaves(file_stream, file_ext, fault) ==
    /\ ~EmbeddingRaises(file_stream, file_ext, fault)
    /\ file_ext = "flac" => DOMAIN file_stream.tags # {}

\* the entries of files a tagging call is made for: with the name only, or with
\* a title and a creator of the file's own
FileInfos ==
    {File("01 Track", "", "flac", 40000),
     SetTags(File("01 Track", "", "flac", 40000),
             [title |-> <<"Song">>, creator |-> <<"Singer">>])}

\* the metadata of items: nothing, a year and a date, a date, a date with a time
ItemMetadatas ==
    {NoTags,
     [title |-> <<"Album">>, creator |-> <<"Band">>, year |-> <<"1968">>,
      date |-> <<"1968", "-", "05", "-", "02">>],
     [title |-> <<"Album">>, date |-> <<"1968", "-", "05", "-", "02">>],
     [title |-> <<"Album">>,
      date |-> <<"1968", "-", "05", "-", "02", "T", "00", ":", "00", ":", "00Z">>]}

IdleTag ==
    [pc |-> "idle", fn |-> "", original |-> Stream("junk", NoTags, <<>>),
     file_stream |-> Stream("junk", NoTags, <<>>),
     file_info |-> File("", "", "", 0), item_metadata |-> NoTags, format_name |-> "",
     cover |-> "", failed |-> FALSE, saved |-> FALSE]

\* a tagging call is over: the stream it leaves, whether it entered an except
\* clause, and whether it saved the tags
TagDone(call, file_stream, failed, saved) ==
    [call EXCEPT !.pc = "done", !.file_stream = file_stream, !.failed = failed,
                 !.saved = saved]

\* handle_callback tags a downloaded file of an audio format
AddMetadataToAudio(file_info, item_metadata, cover_bytes, format_name, fault) ==
    /\ tag.pc = "input"
    /\ tag' = TagDone([tag EXCEPT !.fn = "add_metadata_to_audio", !.file_info = file_info,
                                  !.item_metadata = item_metadata,
                                  !.format_name = format_name, !.cover = cover_bytes],
                      add_metadata_to_audio(tag.original, file_info, item_metadata,
                                            cover_bytes, <<"1">>, format_name, fault),
                      TaggingRaises(tag.original, format_name, fault),
                      ~TaggingRaises(tag.original, format_name, fault))
    /\ UNCHANGED <<mode, user_sessions, tasks, channel, requests, up, unit, elapsed>>

\* upload_file embeds the metadata it was given
UploadEmbeds(file_ext, metadata, fault) ==
    /\ tag.pc = "input"
    /\ file_ext \in {"mp3", "flac"}
    /\ metadata.given
    /\ tag' = TagDone([tag EXCEPT !.fn = "upload_file", !.cover = metadata.album_art],
                      EmbedMetadata(tag.original, file_ext, metadata, fault),
                      EmbeddingRaises(tag.original, file_ext, fault),
                      EmbeddingSaves(tag.original, file_ext, fault))
    /\ UNCHANGED <<mode, user_sessions, tasks, channel, requests, up, unit, elapsed>>

(***************************************************************************)
(* TelegramChannelHandler.upload_file.  The call is a chain of frames: the *)
(* except clause of a FloodWaitError sleeps and awaits a new call of       *)
(* upload_file, whose result it returns.  up.log is what the call has done *)
(* on the network and the signals it has received, in order.               *)
(***************************************************************************)
\* the channel id the handler was constructed with: a str (as its annotation
\* says), or the int that bot.py passes
ChannelIds ==
    {[type |-> "str", text |-> <<"-", "1", "0", "0", "7">>],
     [type |-> "str", text |-> <<"7">>],
     [type |-> "int", text |-> <<"-", "1", "0", "0", "7">>]}

startswith(text, prefix) ==
    Len(text) >= Len(prefix) /\ SubSeq(text, 1, Len(prefix)) = prefix

FloodSeconds == 1..MaxFloodSeconds

Event(ev, n) == [ev |-> ev, n |-> n]

IdleCall(channel_id) ==
    [pc |-> "idle", channel_id |-> channel_id, file_ext |-> "", metadata |-> NoDict,
     file_stream |-> Stream("junk", NoTags, <<>>), depth |-> 0, wait |-> 0, owed |-> 0,
     log |-> <<>>, result |-> ""]

\* a call that ends with False whatever happened in it
Finish_reports_failure(u, result) == [u EXCEPT !.pc = "done", !.result = "False", !.depth = 0]

\* a frame returns, or an exception leaves it: every frame above it is in
\* `return await self.upload_file(...)`, so the whole call ends with it
Finish(u, result) == [u EXCEPT !.pc = "done", !.result = result, !.depth = 0]

\* a frame of upload_file runs to its first await.  At the interpreter's
\* recursion limit the frame cannot run: RecursionError is raised either where
\* no try encloses it, or inside the try, whose except clause returns False.
Enter(u, at_limit) ==
    LET v == [u EXCEPT !.depth = u.depth + 1, !.log = Append(u.log, Event("upload_file", 0))]
    IN  IF u.depth >= RecursionLimit
        THEN Finish(v, at_limit)
        ELSE IF u.channel_id.type # "str"
        THEN Finish(v, "False")        \* AttributeError: int has no startswith
        ELSE IF ~startswith(u.channel_id.text, <<"-", "1", "0", "0">>)
        THEN Finish(v, "False")
        ELSE [v EXCEPT !.pc = "get_entity", !.log = Append(v.log, Event("get_entity", 0))]

\* a call of upload_file
Call(u, file_stream, file_ext, metadata) ==
    Enter([IdleCall(u.channel_id) EXCEPT !.file_stream = file_stream,
                                         !.file_ext = file_ext,
                                         !.metadata = metadata], "False")

GetEntityResults ==
    {"channel", "user", "ValueError", "FloodWaitError", "ChatWriteForbiddenError", "Exception"}

\* client.get_entity is over.  Anything it raises is caught by the inner except
\* clauses; with a channel the metadata is embedded and send_file is called
UpGetEntity(out, n, fault) ==
    /\ up.pc = "get_entity"
    /\ LET u == IF out \in {"channel", "user"} THEN up
                ELSE [up EXCEPT !.log = Append(up.log,
                                           Event(out, IF out = "FloodWaitError" THEN n ELSE 0)),
                                !.owed = IF out = "FloodWaitError" THEN n ELSE @]
       IN  IF out = "channel"
           THEN up' = [u EXCEPT !.pc = "send_file",
                                !.file_stream = EmbedMetadata(@, u.file_ext, u.metadata, fault),
                                !.log = Append(u.log, Event("send_file", 0))]
           ELSE up' = Finish(u, "False")
    /\ UNCHANGED <<mode, user_sessions, tasks, channel, requests, tag, unit, elapsed>>

SendFileResults == {"sent", "FloodWaitError", "ChatWriteForbiddenError", "Exception"}

\* the except clauses of the outer try, for an exception of send_file
SendFileRaised_retries(u, exc, n) ==
    IF exc \in {"FloodWaitError", "ChatWriteForbiddenError"}
    THEN [u EXCEPT !.pc = "sleep", !.wait = n, !.log = Append(u.log, Event("sleep", n))]
    ELSE Finish(u, "False")

SendFileRaised(u, exc, n) ==
    IF exc = "FloodWaitError"
    THEN [u EXCEPT !.pc = "sleep", !.wait = n, !.log = Append(u.log, Event("sleep", n))]
    ELSE Finish(u, "False")

\* client.send_file is over
UpSendFile(out, n) ==
    /\ up.pc = "send_file"
    /\ LET u == [up EXCEPT !.log = Append(up.log,
                                     Event(out, IF out = "FloodWaitError" THEN n ELSE 0)),
                           !.owed = IF out = "FloodWaitError" THEN n ELSE @]
       IN  up' = IF out = "sent" THEN Finish(u, "True") ELSE SendFileRaised(u, out, n)
    /\ UNCHANGED <<mode, user_sessions, tasks, channel, requests, tag, unit, elapsed>>

\* a second passes
UpTick ==
    /\ up.wait > 0 \/ up.owed > 0
    /\ up' = [up EXCEPT !.wait = IF @ > 0 THEN @ - 1 ELSE 0,
                        !.owed = IF @ > 0 THEN @ - 1 ELSE 0]
    /\ UNCHANGED <<mode, user_sessions, tasks, channel, requests, tag, unit, elapsed>>

\* asyncio.sleep is over: upload_file is called again, with the stream now bound
\* to file_stream
UpWake(at_limit) ==
    /\ up.pc = "sleep"
    /\ up.wait = 0
    /\ up' = Enter(up, at_limit)
    /\ UNCHANGED <<mode, user_sessions, tasks, channel, requests, tag, unit, elapsed>>

\* upload_file is called on its own
UploadFile(file_stream, file_ext, metadata) ==
    /\ mode = "upload"
    /\ up.pc = "idle"
    /\ up' = Call(up, file_stream, file_ext, metadata)
    /\ UNCHANGED <<mode, user_sessions, tasks, channel, requests, tag, unit, elapsed>>

(***************************************************************************)
(* ArchiveTelegramBot.handle_callback                                      *)
(***************************************************************************)
\* a store that forgets every user
AnswerExpired_clears(store, u) == EmptyStore

\* the branch of a user who is not in the store: the store is left alone
AnswerExpired(store, u) == store

\* a cancel that removes the session notes, for the user's workflows in flight,
\* how many of their tracks had been started
NoteCancel(u) ==
    [s \in TaskIds |->
        IF tasks[s].h = "callback" /\ tasks[s].user = u /\ tasks[s].started
           /\ tasks[s].pc # "done" /\ tasks[s].cancelAt = NoCancel
        THEN [tasks[s] EXCEPT !.cancelAt = tasks[s].i]
        ELSE tasks[s]]

\* the except clause of the format branch: event.edit(error) is awaited first
ToExcept(tk) == Await(tk, "cb_edit_error", "error")

SetStatus(tk, st) == [tk EXCEPT !.status[tk.i] = st]

AfterCancel(tk) == tk.cancelAt # NoCancel /\ tk.i > tk.cancelAt

AudioFormats == {"FLAC", "MP3", "WAV", "OGG"}

\* the for statement takes the next file and edits the progress message; when the
\* files are exhausted the session is deleted (KeyError when it is gone) and
\* "Album upload finished" is sent
LoopNext(store, tk, u) ==
    IF tk.i < Len(tk.files)
    THEN [task |-> Await([tk EXCEPT !.i = tk.i + 1], "cb_edit_progress", "uploading"),
          store |-> store]
    ELSE IF u \in DOMAIN store
    THEN [task |-> Await(tk, "cb_edit_finished", "finished"), store |-> DelSession(store, u)]
    ELSE [task |-> ToExcept(tk), store |-> store]

Continue(t, tk) ==
    LET n == LoopNext(user_sessions, tk, tk.user)
    IN  SetTask(t, n.task) /\ user_sessions' = n.store

\* the handler starts and runs to its first await
CallbackQuery(t, u, data) ==
    /\ IsFree(t)
    /\ LET tk == [IdleTask EXCEPT !.h = "callback", !.user = u, !.data = data,
                                  !.hadSession = (u \in DOMAIN user_sessions),
                                  !.session = IF u \in DOMAIN user_sessions
                                              THEN user_sessions[u] ELSE NoSession]
       IN  IF u \notin DOMAIN user_sessions
           THEN /\ tasks' = [tasks EXCEPT ![t] = Await(tk, "cb_answer_expired", "expired")]
                /\ user_sessions' = AnswerExpired(user_sessions, u)
           ELSE IF data.kind = "cancel"
           THEN /\ user_sessions' = DelSession(user_sessions, u)
                /\ tasks' = [NoteCancel(u) EXCEPT ![t] = Await(tk, "cb_edit_cancelled", "cancelled")]
           ELSE IF data.kind = "format"
           THEN LET files == FilesOfFormat(
                        get_available_formats(Catalog[user_sessions[u].metadata]), data.label)
                    work == [tk EXCEPT !.files = files, !.started = TRUE,
                                       !.status = [k \in 1..Len(files) |-> "pending"]]
                IN  /\ UNCHANGED user_sessions
                    /\ IF files = <<>>
                       THEN SetTask(t, Await(tk, "cb_answer_nofiles", "no_files"))
                       ELSE IF FirstImage(Catalog[user_sessions[u].metadata]) # 0
                       THEN \* the argument of the cover download reads
                            \* self.archive_handler.current_identifier
                            IF mode = "program" /\ "current_identifier" \notin ArchiveOrgHandlerAttrs
                            THEN SetTask(t, ToExcept(work))
                            ELSE SetTask(t, Await(work, "cb_cover_download", ""))
                       ELSE SetTask(t, Await(work, "sm_get_entity", ""))
           ELSE /\ SetTask(t, Return(tk))
                /\ UNCHANGED user_sessions
    /\ UNCHANGED <<unit, up, tag, mode, channel, requests, elapsed>>

\* event.answer("Session expired") is over
CbAnswerExpired(t, ok) ==
    /\ At(t, "cb_answer_expired")
    /\ SetTask(t, Return(IF ok THEN Shown(tasks[t]) ELSE Failed(tasks[t])))
    /\ UNCHANGED <<unit, up, tag, mode, user_sessions, channel, requests, elapsed>>

\* event.edit("Operation cancelled") is over
CbEditCancelled(t, ok) ==
    /\ At(t, "cb_edit_cancelled")
    /\ SetTask(t, Return(IF ok THEN Shown(tasks[t]) ELSE Failed(tasks[t])))
    /\ UNCHANGED <<unit, up, tag, mode, user_sessions, channel, requests, elapsed>>

\* event.answer("No files available") is over: return, or the except clause
CbAnswerNoFiles(t, ok) ==
    /\ At(t, "cb_answer_nofiles")
    /\ SetTask(t, IF ok THEN Return(Shown(tasks[t])) ELSE ToExcept(Failed(tasks[t])))
    /\ UNCHANGED <<unit, up, tag, mode, user_sessions, channel, requests, elapsed>>

\* the download of the cover is over: its bytes are read and the stream closed;
\* with bytes the cover is sent with the album information as caption, without
\* them the album information is sent as text
CbCoverDownload(t, out) ==
    /\ At(t, "cb_cover_download")
    /\ out \in {"stream", "none", "raise"}
    /\ SetTask(t, CASE out = "stream" -> Await([tasks[t] EXCEPT !.cover = TRUE], "cb_send_cover", "")
                    [] out = "none"   -> Await(Failed(tasks[t]), "sm_get_entity", "")
                    [] out = "raise"  -> ToExcept(Failed(tasks[t])))
    /\ UNCHANGED <<unit, up, tag, mode, user_sessions, channel, requests, elapsed>>

\* client.send_file(channel, cover, caption=album_info) is over
CbSendCover(t, ok) ==
    /\ At(t, "cb_send_cover")
    /\ IF ok
       THEN /\ Continue(t, tasks[t])
            /\ channel' = [channel EXCEPT ![t] = Append(@, [kind |-> "album_cover", track |-> 0,
                                                                afterCancel |-> FALSE])]
       ELSE /\ SetTask(t, ToExcept(Failed(tasks[t])))
            /\ UNCHANGED <<user_sessions, channel>>
    /\ UNCHANGED <<unit, up, tag, mode, requests, elapsed>>

\* TelegramChannelHandler.send_message: get_entity is over; an exception makes
\* send_message return False, which the handler ignores
SmGetEntity(t, ok) ==
    /\ At(t, "sm_get_entity")
    /\ IF ok
       THEN /\ SetTask(t, Await(tasks[t], "sm_send_message", ""))
            /\ UNCHANGED user_sessions
       ELSE Continue(t, Failed(tasks[t]))
    /\ UNCHANGED <<unit, up, tag, mode, channel, requests, elapsed>>

\* TelegramChannelHandler.send_message: client.send_message is over
SmSendMessage(t, ok) ==
    /\ At(t, "sm_send_message")
    /\ Continue(t, IF ok THEN tasks[t] ELSE Failed(tasks[t]))
    /\ channel' = IF ok THEN [channel EXCEPT ![t] = Append(@, [kind |-> "album_info", track |-> 0,
                                                                     afterCancel |-> FALSE])]
                        ELSE channel
    /\ UNCHANGED <<unit, up, tag, mode, requests, elapsed>>

\* event.edit("Uploading track i/n") is over: the track's download is called
CbEditProgress(t, ok) ==
    /\ At(t, "cb_edit_progress")
    /\ IF ~ok
       THEN /\ SetTask(t, ToExcept(Failed(tasks[t])))
            /\ UNCHANGED requests
       ELSE LET tk == Shown(tasks[t])
            IN  IF mode = "program" /\ ~DownloadCallBinds
                THEN \* TypeError: the call raises before it sends a request
                     /\ SetTask(t, ToExcept(SetStatus(tk, "fetch_failed")))
                     /\ UNCHANGED requests
                ELSE /\ SetTask(t, Await(SetStatus(tk, "fetching"), "cb_download", ""))
                     /\ requests' = [requests EXCEPT ![t] =
                            Append(@, [track |-> tk.i, afterCancel |-> AfterCancel(tk)])]
    /\ UNCHANGED <<unit, up, tag, mode, user_sessions, channel, elapsed>>

\* the status of a fetched file when upload_file is called: an audio format has
\* passed add_metadata_to_audio, which returns normally whatever happens in it
StatusBeforeUpload(label) == IF label \in AudioFormats THEN "tagged" ELSE "fetched"

\* a loop that starts upload_file without awaiting it and goes on to the next file
CbDownload_detached(t, out) ==
    /\ At(t, "cb_download")
    /\ out \in {"stream", "none", "raise"}
    /\ IF out = "stream"
       THEN Continue(t, SetStatus(tasks[t], "uploading"))
       ELSE SetTask(t, ToExcept(SetStatus(tasks[t], "fetch_failed"))) /\ UNCHANGED user_sessions
    /\ UNCHANGED <<unit, up, tag, mode, channel, requests, elapsed>>

\* a loop that hands every file to upload_file as it was downloaded
CbDownload_untagged(t, out) ==
    /\ At(t, "cb_download")
    /\ out \in {"stream", "none", "raise"}
    /\ SetTask(t,
          CASE out = "stream" ->
                 Await([SetStatus(tasks[t], "uploading") EXCEPT
                            !.open = 1 + (IF tasks[t].cover THEN 1 ELSE 0)],
                       "cb_upload", "")
            [] out = "none" ->
                 Await(SetStatus(Failed(tasks[t]), "fetch_failed"),
                       "cb_edit_failed_download", "failed_download")
            [] out = "raise" -> ToExcept(SetStatus(Failed(tasks[t]), "fetch_failed")))
    /\ IF mode = "publish" /\ out = "stream"
       THEN up' = Call(up, Stream(tasks[t].files[tasks[t].i].ext, NoTags, <<>>),
                       tasks[t].files[tasks[t].i].ext, NoDict)
       ELSE UNCHANGED up
    /\ UNCHANGED <<unit, tag, mode, user_sessions, channel, requests, elapsed>>

\* download_file_stream is over.  Without a stream the failure is shown and the
\* loop continues; with one the file is tagged, the thumbnail stream is made and
\* upload_file is awaited
CbDownload(t, out) ==
    /\ At(t, "cb_download")
    /\ out \in {"stream", "none", "raise"}
    /\ SetTask(t,
          CASE out = "stream" ->
                 Await([SetStatus(tasks[t], "uploading") EXCEPT
                            !.open = 1 + (IF tasks[t].cover THEN 1 ELSE 0),
                            !.passed = IF tasks[t].data.label \in AudioFormats
                                       THEN @ \cup {tasks[t].i} ELSE @],
                       "cb_upload", "")
            [] out = "none" ->
                 Await(SetStatus(Failed(tasks[t]), "fetch_failed"),
                       "cb_edit_failed_download", "failed_download")
            [] out = "raise" -> ToExcept(SetStatus(Failed(tasks[t]), "fetch_failed")))
    /\ IF mode = "publish" /\ out = "stream"
       THEN \E fault \in SaveFaults :
               LET file_info == tasks[t].files[tasks[t].i]
                   file_stream == Stream(file_info.ext, NoTags, <<>>)
                   cover_bytes == IF tasks[t].cover THEN "jpeg" ELSE ""
                   format_name == tasks[t].data.label
               IN  up' = Call(up,
                              IF format_name \in AudioFormats
                              THEN add_metadata_to_audio(file_stream, file_info, NoTags,
                                                         cover_bytes,
                                                         <<ToString(tasks[t].i)>>,
                                                         format_name, fault)
                              ELSE file_stream,
                              file_info.ext, NoDict)
       ELSE UNCHANGED up
    /\ UNCHANGED <<unit, tag, mode, user_sessions, channel, requests, elapsed>>

\* event.edit("Failed to download") is over: continue with the next file
CbEditFailedDownload(t, ok) ==
    /\ At(t, "cb_edit_failed_download")
    /\ IF ok THEN Continue(t, Shown(tasks[t]))
             ELSE SetTask(t, ToExcept(tasks[t])) /\ UNCHANGED user_sessions
    /\ UNCHANGED <<unit, up, tag, mode, channel, requests, elapsed>>

\* upload_file is over: the streams are closed after it returned (not when it
\* raised), and a False result is shown
CbUpload(t, out) ==
    /\ At(t, "cb_upload")
    /\ out \in {"True", "False", "raise"}
    /\ IF mode = "publish"
       THEN /\ up.pc = "done"
            /\ out = (IF up.result \in {"True", "False"} THEN up.result ELSE "raise")
            /\ up' = [up EXCEPT !.pc = "idle"]
       ELSE UNCHANGED up
    /\ CASE out = "True" ->
              /\ Continue(t, [SetStatus(tasks[t], "published") EXCEPT !.open = 0])
              /\ channel' = [channel EXCEPT ![t] =
                     Append(@, [kind |-> "track", track |-> tasks[t].i,
                                afterCancel |-> AfterCancel(tasks[t])])]
         [] out = "False" ->
              /\ SetTask(t, Await([SetStatus(Failed(tasks[t]), "failed") EXCEPT !.open = 0],
                                  "cb_edit_failed_upload", "failed_upload"))
              /\ UNCHANGED <<user_sessions, channel>>
         [] out = "raise" ->
              /\ SetTask(t, ToExcept(SetStatus(Failed(tasks[t]), "failed")))
              /\ UNCHANGED <<user_sessions, channel>>
    /\ UNCHANGED <<unit, tag, mode, requests, elapsed>>

\* event.edit("Failed to upload") is over: continue with the next file
CbEditFailedUpload(t, ok) ==
    /\ At(t, "cb_edit_failed_upload")
    /\ IF ok THEN Continue(t, Shown(tasks[t]))
             ELSE SetTask(t, ToExcept(tasks[t])) /\ UNCHANGED user_sessions
    /\ UNCHANGED <<unit, up, tag, mode, channel, requests, elapsed>>

\* event.edit("Album upload finished") is over
CbEditFinished(t, ok) ==
    /\ At(t, "cb_edit_finished")
    /\ SetTask(t, IF ok THEN Return(Shown(tasks[t])) ELSE ToExcept(Failed(tasks[t])))
    /\ UNCHANGED <<unit, up, tag, mode, user_sessions, channel, requests, elapsed>>

\* the except clause: event.edit(error) is over; only then is the session deleted,
\* and an exception of the edit leaves the handler before that
CbEditError(t, ok) ==
    /\ At(t, "cb_edit_error")
    /\ IF ok
       THEN /\ SetTask(t, Return(Shown(tasks[t])))
            /\ user_sessions' = IF tasks[t].user \in DOMAIN user_sessions
                                THEN DelSession(user_sessions, tasks[t].user)
                                ELSE user_sessions
       ELSE /\ SetTask(t, Return(Failed(tasks[t])))
            /\ UNCHANGED user_sessions
    /\ UNCHANGED <<unit, up, tag, mode, channel, requests, elapsed>>

(***************************************************************************)
(* The program: the handlers of bot.py with the handlers of                *)
(* archive_handler.py and telegram_handler.py behind them.  The steps that *)
(* follow a cover download or a track download are no steps of the         *)
(* program: neither call gets as far as a request.                         *)
(***************************************************************************)
\* bot.py constructs the channel handler with int(TELEGRAM_CHANNEL_ID)
CHANNEL_ID == [type |-> "int", text |-> <<"-", "1", "0", "0", "7">>]

Init ==
    /\ mode = "program"
    /\ user_sessions = EmptyStore
    /\ InitBot
    /\ up = IdleCall(CHANNEL_ID)
    /\ tag = IdleTag
    /\ unit = IdleUnit
    /\ elapsed = {}

\* the steps of the two handlers up to the first download
HandlerStep(t) ==
    \/ \E u \in Users, text \in Texts : DownloadCommand(t, u, text)
    \/ \E u \in Users, data \in Buttons : CallbackQuery(t, u, data)
    \/ \E metadata \in Items \cup {NoMetadata} : DlGetMetadata(t, metadata)
    \/ \E ok \in BOOLEAN :
        \/ DlRespondUsage(t, ok)
        \/ DlRespondFetching(t, ok)
        \/ DlEdit(t, ok)
        \/ DlEditError(t, ok)
        \/ CbAnswerExpired(t, ok)
        \/ CbEditCancelled(t, ok)
        \/ CbAnswerNoFiles(t, ok)
        \/ SmGetEntity(t, ok)
        \/ SmSendMessage(t, ok)
        \/ CbEditProgress(t, ok)
        \/ CbEditError(t, ok)

\* the steps of handle_callback from the first download on
PipelineStep(t) ==
    \/ \E out \in {"stream", "none", "raise"} :
        \/ CbCoverDownload(t, out)
        \/ CbDownload(t, out)
    \/ \E out \in {"True", "False", "raise"} : CbUpload(t, out)
    \/ \E ok \in BOOLEAN :
        \/ CbSendCover(t, ok)
        \/ CbEditFailedDownload(t, ok)
        \/ CbEditFailedUpload(t, ok)
        \/ CbEditFinished(t, ok)

Next == \E t \in TaskIds : HandlerStep(t)

Spec == Init /\ [][Next]_vars

(***************************************************************************)
(* The program while time passes.  A session is stored without the time of *)
(* its creation; elapsed holds the sessions that were in the store for     *)
(* longer than a timeout window, whatever its length.                      *)
(***************************************************************************)
\* the timeout window of the session of user u is over
WindowElapses(u) ==
    /\ u \in DOMAIN user_sessions
    /\ user_sessions[u] \notin elapsed
    /\ elapsed' = elapsed \cup {user_sessions[u]}
    /\ UNCHANGED <<mode, user_sessions, tasks, channel, requests, up, tag, unit>>

NextExpiry ==
    \/ \E t \in TaskIds : HandlerStep(t)
    \/ \E u \in Users : WindowElapses(u)

SpecExpiry == Init /\ [][NextExpiry]_vars

\* the stores that /download commands leave: a session of an item per user, or none
Stores ==
    UNION {[us -> {Session(<<"details", it>>, it, 0) : it \in {"album", "covered"}}] :
           us \in SUBSET Users}

\* the steps of handle_callback
CallbackStep(t) ==
    \/ \E u \in Users, data \in Buttons : CallbackQuery(t, u, data)
    \/ \E ok \in BOOLEAN :
        \/ CbAnswerExpired(t, ok)
        \/ CbEditCancelled(t, ok)
        \/ CbAnswerNoFiles(t, ok)
        \/ SmGetEntity(t, ok)
        \/ SmSendMessage(t, ok)
        \/ CbEditProgress(t, ok)
        \/ CbEditError(t, ok)
    \/ PipelineStep(t)

(***************************************************************************)
(* handle_callback against collaborators that take its calls, started in   *)
(* any store that /download commands leave.                                *)
(***************************************************************************)
InitHandler ==
    /\ mode = "handler"
    /\ user_sessions \in Stores
    /\ InitBot
    /\ up = IdleCall(CHANNEL_ID)
    /\ tag = IdleTag
    /\ unit = IdleUnit
    /\ elapsed = {}

NextHandler == \E t \in TaskIds : CallbackStep(t)

SpecHandler == InitHandler /\ [][NextHandler]_vars

(***************************************************************************)
(* upload_file called on its own, by a handler of any channel id.          *)
(***************************************************************************)
UploadStep ==
    \/ \E out \in GetEntityResults, n \in FloodSeconds, fault \in SaveFaults :
           UpGetEntity(out, n, fault)
    \/ \E out \in SendFileResults, n \in FloodSeconds : UpSendFile(out, n)
    \/ UpTick
    \/ \E at_limit \in {"False", "RecursionError"} : UpWake(at_limit)

UploadExts == {"flac", "mp3", "mp4"}

UploadStreams ==
    {Stream("flac", StaleTags("flac"), <<>>), Stream("flac", NoTags, <<>>),
     Stream("mp3", NoTags, <<Picture("", "image/png", "old")>>), Stream("junk", NoTags, <<>>)}

InitUpload ==
    /\ mode = "upload"
    /\ user_sessions = EmptyStore
    /\ InitBot
    /\ up \in {IdleCall(c) : c \in ChannelIds}
    /\ tag = IdleTag
    /\ unit = IdleUnit
    /\ elapsed = {}

NextUpload ==
    \/ \E file_stream \in UploadStreams, file_ext \in UploadExts, metadata \in MetadataArgs :
           UploadFile(file_stream, file_ext, metadata)
    \/ UploadStep

SpecUpload == InitUpload /\ [][NextUpload]_vars

(***************************************************************************)
(* One invocation of handle_callback whose uploads are calls of the        *)
(* upload_file above, by a handler of any channel id.                      *)
(***************************************************************************)
InitPublish ==
    /\ mode = "publish"
    /\ user_sessions \in Stores
    /\ InitBot
    /\ up \in {IdleCall(c) : c \in ChannelIds}
    /\ tag = IdleTag
    /\ unit = IdleUnit
    /\ elapsed = {}

NextPublish ==
    \/ \E t \in TaskIds : CallbackStep(t)
    \/ UploadStep

SpecPublish == InitPublish /\ [][NextPublish]_vars

(***************************************************************************)
(* The tagging calls made on any stream.                                   *)
(***************************************************************************)
InitTag ==
    /\ mode = "tag"
    /\ user_sessions = EmptyStore
    /\ InitBot
    /\ up = IdleCall(CHANNEL_ID)
    /\ tag \in {[IdleTag EXCEPT !.pc = "input", !.original = s, !.file_stream = s] :
                   s \in Streams}
    /\ unit = IdleUnit
    /\ elapsed = {}

NextTag ==
    \/ \E file_info \in FileInfos, item_metadata \in ItemMetadatas, cover_bytes \in Covers,
          format_name \in AudioFormats, fault \in SaveFaults :
           AddMetadataToAudio(file_info, item_metadata, cover_bytes, format_name, fault)
    \/ \E file_ext \in UploadExts, metadata \in MetadataArgs, fault \in SaveFaults :
           UploadEmbeds(file_ext, metadata, fault)

SpecTag == InitTag /\ [][NextTag]_vars

(***************************************************************************)
(* download_file_stream called on its own.                                 *)
(***************************************************************************)
InitUnit ==
    /\ mode = "unit"
    /\ user_sessions = EmptyStore
    /\ InitBot
    /\ up = IdleCall(CHANNEL_ID)
    /\ tag = IdleTag
    /\ unit = [IdleUnit EXCEPT !.pc = "input"]
    /\ elapsed = {}

NextDownload == DownloadStep

SpecDownload == InitUnit /\ [][NextDownload]_vars

(***************************************************************************)
(* get_available_formats called on its own.                                *)
(***************************************************************************)
NextFormats == \E files \in FileLists(MaxFiles) : GetAvailableFormats(files)

SpecFormats == InitUnit /\ [][NextFormats]_vars

(***************************************************************************)
(* extract_identifier called on its own.                                   *)
(***************************************************************************)
NextIdentifier ==
    \E path \in {p \in Paths(MaxPathLen) : WellFormed(p)}, parses \in BOOLEAN :
        ExtractIdentifier(path, parses)

SpecIdentifier == InitUnit /\ [][NextIdentifier]_vars

(***************************************************************************)
(* The cover loop of handle_callback on its own.                           *)
(***************************************************************************)
NextCover == \E files \in CoverLists(MaxFiles) : ChooseCover(files)

SpecCover == InitUnit /\ [][NextCover]_vars


(***************************************************************************)
(* Properties of the handlers.                                             *)
(***************************************************************************)
Workflow(t) == tasks[t].h = "callback" /\ tasks[t].started /\ tasks[t].pc # "done"

Terminal == {"published", "failed", "fetch_failed"}

NonTerminal == {"fetching", "fetched", "tagged", "uploading"}

\* the tracks a handler invocation has published, in the order published
PublishedTracks(t) ==
    LET msgs == SelectSeq(channel[t], LAMBDA m : m.kind = "track")
    IN  [k \in 1..Len(msgs) |-> msgs[k].track]

\* C1: a workflow over N >= 1 files in which no call to Telegram or to the catalog
\* failed does not enter the except clause (the album-level error), and when it
\* sends "Album upload finished" it has published the N files in the group's order.
C1_AlbumCompletes ==
    \A t \in TaskIds :
        (Workflow(t) /\ ~tasks[t].extFailed /\ tasks[t].cancelAt = NoCancel) =>
            /\ tasks[t].pc # "cb_edit_error"
            /\ tasks[t].pc = "cb_edit_finished" =>
                   PublishedTracks(t) = [k \in 1..Len(tasks[t].files) |-> k]

\* C2: in a workflow at most one track is in a non-terminal state, and a track is
\* begun only when the track before it is Published, Failed or failed to fetch.
C2_TracksSequential ==
    \A t \in TaskIds :
        /\ Cardinality({k \in 1..Len(tasks[t].status) : tasks[t].status[k] \in NonTerminal}) <= 1
        /\ \A k \in 1..(Len(tasks[t].status) - 1) :
               tasks[t].status[k + 1] # "pending" => tasks[t].status[k] \in Terminal

\* the second track is being uploaded after the first one ended
C2_Witness ==
    \E t \in TaskIds :
        /\ Len(tasks[t].status) = 2
        /\ tasks[t].status[1] \in Terminal
        /\ tasks[t].status[2] = "uploading"

C4_FetchFailureKeepsLoop ==
    \A t \in TaskIds :
        (Workflow(t) /\ ~tasks[t].extFailed
            /\ tasks[t].pc \in {"cb_edit_error", "cb_edit_finished"}) =>
                \A k \in 1..Len(tasks[t].status) :
                    tasks[t].status[k] = "fetch_failed" =>
                        \A j \in (k + 1)..Len(tasks[t].status) : tasks[t].status[j] # "pending"

\* a step of a button press that found no session in the store
ExpiredPressStep(t) ==
    \/ tasks[t].h = "idle" /\ tasks'[t].h = "callback" /\ ~tasks'[t].hadSession
    \/ tasks[t].h = "callback" /\ tasks[t].pc # "done" /\ ~tasks[t].hadSession
         /\ tasks'[t] # tasks[t]

\* C8: a button press of a user with no session only answers "Session expired":
\* its steps leave the store, the channel and the requests as they are.
C8_ExpiredPressChangesNothing ==
    [][\A t \in TaskIds :
          ExpiredPressStep(t) =>
              /\ tasks'[t].pc \in {"cb_answer_expired", "done"}
              /\ UNCHANGED <<user_sessions, channel, requests>>]_vars

\* a press without a session is being answered while another user has a session
C8_Witness ==
    \E t \in TaskIds :
        /\ At(t, "cb_answer_expired")
        /\ ~tasks[t].hadSession
        /\ user_sessions # EmptyStore

\* C9: the step that ends a workflow which started processing leaves no session
\* of its user in the store.
C9_SessionGoneAtEnd ==
    [][\A t \in TaskIds :
          (Workflow(t) /\ tasks'[t].pc = "done") =>
              tasks[t].user \notin DOMAIN user_sessions']_vars

\* the tracks of a workflow that have been handed to upload_file
Uploaded(tk) == {k \in 1..Len(tk.status) : tk.status[k] \in {"uploading", "published", "failed"}}

\* once Published or Failed, a track stays so while its workflow runs
TerminalStays(t) ==
    \A k \in 1..Len(tasks[t].status) :
        (tasks[t].status[k] \in {"published", "failed"} /\ Len(tasks'[t].status) >= k) =>
            tasks'[t].status[k] = tasks[t].status[k]

\* download_file_stream returned a stream: the file goes to upload_file, whatever
\* the tagging call did to it
FetchedGoesToUpload(t) ==
    (At(t, "cb_download") /\ tasks'[t].pc = "cb_upload") =>
        /\ tasks'[t].status[tasks[t].i] = "uploading"
        /\ mode = "publish" => up'.pc \in {"get_entity", "done"}

SignalsAt(ev) == {k \in 1..Len(up.log) : up.log[k].ev = ev}

\* C5: after a FloodWaitError of n seconds upload_file makes no network call
\* before n seconds have passed, then calls upload_file again, and the call
\* returns True when the last send_file succeeded.
C5_FloodWaitSleepsThenRetries ==
    /\ up.pc \in {"get_entity", "send_file"} => up.owed = 0
    /\ up.pc = "done" =>
           \A k \in SignalsAt("FloodWaitError") :
               \E j \in (k + 1)..Len(up.log) : up.log[j].ev = "upload_file"
    /\ (up.pc = "done" /\ up.log[Len(up.log)].ev = "sent") => up.result = "True"

\* C6: a call of upload_file that has ended has returned True (Published) or
\* False (Failed), however many FloodWaitErrors it received.
C6_CallEndsPublishedOrFailed ==
    up.pc = "done" => up.result \in {"True", "False"}

\* a step in which upload_file of track i returns, after a ChatWriteForbiddenError
ForbiddenReturns(t) ==
    /\ At(t, "cb_upload")
    /\ tasks'[t] # tasks[t]
    /\ SignalsAt("ChatWriteForbiddenError") # {}

\* a step in which the notice of a failed upload has been shown
FailureShown(t) ==
    /\ At(t, "cb_edit_failed_upload")
    /\ tasks'[t].shown = "failed_upload"

\* C7: a ChatWriteForbiddenError is the last thing a call of upload_file sees:
\* no sleep and no send_file follow it and the call returns False; the handler
\* marks the track failed, shows the failure, and goes on to the next file (or to
\* the end of the album when it was the last one).
C7_ForbiddenIsTerminal ==
    [][/\ \A k \in 1..Len(up'.log) :
              up'.log[k].ev = "ChatWriteForbiddenError" =>
                  k = Len(up'.log) /\ up'.pc \in {"done", "idle"} /\ up'.result = "False"
       /\ \A t \in TaskIds :
              /\ ForbiddenReturns(t) =>
                     /\ tasks'[t].status[tasks[t].i] = "failed"
                     /\ tasks'[t].pc = "cb_edit_failed_upload"
              /\ FailureShown(t) =>
                     IF tasks[t].i < Len(tasks[t].files)
                     THEN /\ tasks'[t].i = tasks[t].i + 1
                          /\ tasks'[t].pc = "cb_edit_progress"
                     ELSE tasks'[t].pc \in {"cb_edit_finished", "cb_edit_error"}]_vars

\* upload_file of the first track has returned False after a ChatWriteForbiddenError
\* of send_file, without a sleep, and the handler has gone on to the second track
C7_Witness ==
    \E t \in TaskIds :
        /\ At(t, "cb_edit_progress")
        /\ tasks[t].i = 2
        /\ tasks[t].status[1] = "failed"
        /\ up.pc = "idle"
        /\ up.result = "False"
        /\ SignalsAt("send_file") # {}
        /\ up.log[Len(up.log)].ev = "ChatWriteForbiddenError"
        /\ SignalsAt("sleep") = {}

(***************************************************************************)
(* Properties of the tagging calls.                                        *)
(***************************************************************************)
\* C10: when a tagging call has entered one of its except clauses, the stream
\* that goes on to send_file is the stream the call was given.
C10_FailedTaggingKeepsBytes ==
    (tag.pc = "done" /\ tag.failed) => tag.file_stream = tag.original

\* the front-cover pictures (type 3) a stream holds
FrontCovers(stream) == SelectSeq(stream.pictures, LAMBDA q : q.type = 3)

\* C12: a stream that a tagging call has tagged successfully holds at most one
\* front-cover picture, whatever pictures it held before.
C12_AtMostOneFrontCover ==
    (tag.pc = "done" /\ ~tag.failed) => Len(FrontCovers(tag.file_stream)) <= 1

\* C13: after a tagging call that saved the tags with a cover image I, the
\* picture embedded last holds the bytes of I and its MIME type is image/png
\* when I is a PNG and image/jpeg otherwise.
C13_EmbeddedCoverKeepsBytesAndMime ==
    (tag.pc = "done" /\ tag.saved /\ tag.cover # "") =>
        LET pictures == tag.file_stream.pictures
            embedded == pictures[Len(pictures)]
        IN  /\ pictures # <<>>
            /\ embedded.data = tag.cover
            /\ embedded.mime = (IF tag.cover = "png" THEN "image/png" ELSE "image/jpeg")

\* the four values read back from a stream of a container
ReadTags(stream, format_name) ==
    IF format_name = "MP3"
    THEN [title |-> Get(stream.tags, "TIT2", <<>>), artist |-> Get(stream.tags, "TPE1", <<>>),
          album |-> Get(stream.tags, "TALB", <<>>), date |-> Get(stream.tags, "TDRC", <<>>)]
    ELSE [title |-> Get(stream.tags, "title", <<>>), artist |-> Get(stream.tags, "artist", <<>>),
          album |-> Get(stream.tags, "album", <<>>), date |-> Get(stream.tags, "date", <<>>)]

\* C14: after add_metadata_to_audio has saved the tags, the title, artist, album
\* and date read back are the file's title (or its name without extension), the
\* file's creator (or the item's), the item's title and the item's year (or its
\* date), whatever the file held before.
C14_TagsReadBackVerbatim ==
    (tag.pc = "done" /\ tag.fn = "add_metadata_to_audio" /\ tag.saved) =>
        LET read == ReadTags(tag.file_stream, tag.format_name)
            f == tag.file_info
            m == tag.item_metadata
        IN  /\ read.title = (IF "title" \in DOMAIN f THEN f.title ELSE splitext(f))
            /\ "creator" \in DOMAIN f => read.artist = f.creator
            /\ ("creator" \notin DOMAIN f /\ "creator" \in DOMAIN m) => read.artist = m.creator
            /\ "title" \in DOMAIN m => read.album = m.title
            /\ "year" \in DOMAIN m => read.date = m.year
            /\ ("year" \notin DOMAIN m /\ "date" \in DOMAIN m) => read.date = m.date

(***************************************************************************)
(* Properties of download_file_stream.                                     *)
(***************************************************************************)
Downloaded == unit.fn = "download_file_stream" /\ unit.pc = "done"

\* a stream is returned only for status 200 with the whole body written and no
\* error; with another status or an error, None is returned
WholeBodyOrNothing ==
    Downloaded =>
        /\ unit.result = "stream" =>
               unit.status = 200 /\ unit.written = unit.length /\ ~unit.error
        /\ (unit.error \/ unit.status # 200) => unit.result = "None"

\* C15 as stated: a stream is returned only for status 200 and a whole body, None
\* is returned on another status or an error, and every call sends exactly one
\* request.
C15_OneRequestWholeBodyOrNothing ==
    /\ WholeBodyOrNothing
    /\ Downloaded => unit.requests = 1

\* C15, amended: a stream is returned only for status 200 and a whole body, None
\* is returned on another status or an error, and a call sends one request, or
\* none when the identifier or the file name is empty.
C15_AtMostOneRequestWholeBodyOrNothing ==
    /\ WholeBodyOrNothing
    /\ Downloaded =>
           unit.requests = (IF unit.identifier = "" \/ unit.file_name = "" THEN 0 ELSE 1)

\* the connection failed after a part of the body was written, and None was returned
C15_Witness ==
    /\ Downloaded
    /\ unit.error
    /\ unit.written > 0
    /\ unit.written < unit.length
    /\ unit.result = "None"


(***************************************************************************)
(* Format grouping.                                                        *)
(***************************************************************************)
Grouped == mode = "unit" /\ unit.fn = "get_available_formats" /\ unit.pc = "done"

\* how many times an entry occurs in a list
Occurrences(list, e) == Cardinality({k \in 1..Len(list) : list[k] = e})

RECURSIVE SumOfSizes(_)
SumOfSizes(formats) ==
    IF formats = <<>> THEN 0 ELSE Len(Head(formats).files) + SumOfSizes(Tail(formats))

\* how many times an entry occurs in all the groups together
RECURSIVE GroupOccurrences(_, _)
GroupOccurrences(formats, e) ==
    IF formats = <<>> THEN 0
    ELSE Occurrences(Head(formats).files, e) + GroupOccurrences(Tail(formats), e)

\* the label the table gives to a name's extension, "" when it has none
TableLabel(f) ==
    LET ext == lower(f.ext)
        at == {k \in 1..Len(format_categories) : ext \in format_categories[k].exts}
    IN  IF at = {} THEN "" ELSE format_categories[CHOOSE k \in at : TRUE].label

\* the name ends with one of the four non-payload suffixes
NonPayloadSuffix(f) ==
    <<f.mark, f.ext>> \in {<<"_meta", "xml">>, <<"_files", "xml">>,
                           <<"_chocr", "html">>, <<"_djvu", "txt">>}

DeclaredSize(f) == IF "size" \in DOMAIN f THEN f.size ELSE 0

Excluded(f) == NonPayloadSuffix(f) \/ DeclaredSize(f) < 1024 \/ TableLabel(f) = ""

LabelsOf(files) == {TableLabel(files[k]) : k \in 1..Len(files)} \ {""}

AdmittedLabelsOf(files) ==
    {TableLabel(files[k]) : k \in {j \in 1..Len(files) : ~Excluded(files[j])}}

GroupsDisjointAndBounded ==
    /\ \A k \in 1..Len(unit.formats) : unit.formats[k].files # <<>>
    /\ \A j, k \in 1..Len(unit.formats) :
           j # k => unit.formats[j].label # unit.formats[k].label
    /\ SumOfSizes(unit.formats) <= Len(unit.files)
    /\ \A e \in FilePool :
           GroupOccurrences(unit.formats, e) <= Occurrences(unit.files, e)

\* C16 as stated: for N files across K format labels the result has exactly
\* K non-empty groups, no entry is in more than one of them, and the sizes
\* of the groups sum to at most N
C16_OneGroupPerLabel ==
    Grouped =>
        /\ GroupsDisjointAndBounded
        /\ Len(unit.formats) = Cardinality(LabelsOf(unit.files))

\* C16 amended: the result has exactly one non-empty group for each label
\* that has a file which is not excluded, hence at most K groups; no entry
\* is in more than one group and the sizes sum to at most N
C16_OneGroupPerAdmittedLabel ==
    Grouped =>
        /\ GroupsDisjointAndBounded
        /\ {unit.formats[k].label : k \in 1..Len(unit.formats)}
               = AdmittedLabelsOf(unit.files)
        /\ Len(unit.formats) <= Cardinality(LabelsOf(unit.files))

\* two files of one label, a file of another and an excluded one whose
\* label has no group
C16_Witness ==
    /\ Grouped
    /\ Len(unit.files) = 3
    /\ Len(unit.formats) = 1
    /\ Len(unit.formats[1].files) = 2
    /\ Cardinality(LabelsOf(unit.files)) = 2


\* where a label stands in the format table
TablePosition(label) ==
    CHOOSE k \in 1..Len(format_categories) : format_categories[k].label = label

\* the rearrangements of a list
Rearrangements(list) ==
    {[k \in 1..Len(list) |-> list[p[k]]] :
        p \in {q \in [1..Len(list) -> 1..Len(list)] :
                  \A j, k \in 1..Len(list) : j # k => q[j] # q[k]}}

\* C17: the groups come in descending order of member count, groups of equal
\* count in the order of their labels in the format table, and every
\* permutation of the file list gives the same groups with the same entries
\* in the same order
C17_GroupOrderIsDeterministic ==
    Grouped =>
        /\ \A k \in 1..(Len(unit.formats) - 1) :
               \/ Len(unit.formats[k].files) > Len(unit.formats[k + 1].files)
               \/ /\ Len(unit.formats[k].files) = Len(unit.formats[k + 1].files)
                  /\ TablePosition(unit.formats[k].label)
                        < TablePosition(unit.formats[k + 1].label)
        /\ \A files \in Rearrangements(unit.files) :
               get_available_formats(files) = unit.formats


\* the group of a label, empty when the result has none
GroupOf(label) ==
    LET at == {k \in 1..Len(unit.formats) : unit.formats[k].label = label}
    IN  IF at = {} THEN <<>> ELSE unit.formats[CHOOSE k \in at : TRUE].files

\* C18: no group holds an entry whose name ends with a non-payload suffix,
\* whose declared size is below 1024 bytes (no size counts as 0) or whose
\* extension is not in the table; every other entry of the file list is in
\* the group of its extension's label
C18_GroupsHoldExactlyThePayload ==
    Grouped =>
        /\ \A k \in 1..Len(unit.formats) :
               \A j \in 1..Len(unit.formats[k].files) :
                  LET f == unit.formats[k].files[j]
                  IN  /\ ~NonPayloadSuffix(f)
                      /\ DeclaredSize(f) >= 1024
                      /\ TableLabel(f) = unit.formats[k].label
        /\ \A k \in 1..Len(unit.files) :
               LET f == unit.files[k]
               IN  ~Excluded(f) =>
                      Occurrences(GroupOf(TableLabel(f)), f) = Occurrences(unit.files, f)

\* a file list with a non-payload suffix, a small file and a payload file of
\* the suffix's extension, of which only the last is grouped
C18_Witness ==
    /\ Grouped
    /\ \E k \in 1..Len(unit.files) : NonPayloadSuffix(unit.files[k])
    /\ \E k \in 1..Len(unit.files) :
           ~NonPayloadSuffix(unit.files[k]) /\ DeclaredSize(unit.files[k]) < 1024
    /\ \E k \in 1..Len(unit.files) : unit.files[k].ext = "txt" /\ ~Excluded(unit.files[k])
    /\ Len(unit.formats) = 1
    /\ Len(unit.formats[1].files) = 1


(***************************************************************************)
(* Identifier extraction.                                                  *)
(***************************************************************************)
Extracted == mode = "unit" /\ unit.fn = "extract_identifier" /\ unit.pc = "done"

\* the positions of the details marker among the segments
Markers == {k \in 1..Len(unit.path_parts) : unit.path_parts[k] = "details"}

FirstMarker == CHOOSE k \in Markers : \A j \in Markers : k <= j

\* C19: extract_identifier returns the segment right after the details
\* marker, no identifier when the marker has no segment after it, the single
\* segment of a one-segment path, no identifier for every other path (an
\* empty one, several segments without a marker), and it never raises
C19_IdentifierByPathShape ==
    Extracted =>
        /\ ~unit.raised
        /\ ~unit.parses => unit.result = NoneId
        /\ unit.parses =>
              unit.result =
                 IF Markers # {}
                 THEN IF FirstMarker < Len(unit.path_parts)
                      THEN unit.path_parts[FirstMarker + 1] ELSE NoneId
                 ELSE IF Len(unit.path_parts) = 1 /\ unit.path_parts[1] # ""
                      THEN unit.path_parts[1] ELSE NoneId


(***************************************************************************)
(* Cover choice.                                                           *)
(***************************************************************************)
CoverChosen == mode = "unit" /\ unit.fn = "cover" /\ unit.pc = "done"

\* cover.jpg, folder.jpg, front.jpg or albumart.jpg in any case
CandidateName(f) ==
    /\ f.stem \in {"cover", "Cover", "folder", "Folder", "front", "Front",
                   "albumart", "AlbumArt"}
    /\ f.mark = ""
    /\ f.ext \in {"jpg", "JPG"}

ImageFormat(f) == f.ext \in {"jpg", "JPG", "jpeg", "JPEG", "png", "PNG"}

\* C20: when a file of the list has a candidate name the chosen cover is
\* such a file, whatever images precede it, and only when none has is the
\* chosen cover the first image of the list
C20_CandidateNameBeforeFirstImage ==
    CoverChosen =>
        LET candidates == {k \in 1..Len(unit.files) : CandidateName(unit.files[k])}
            images == {k \in 1..Len(unit.files) : ImageFormat(unit.files[k])}
        IN  IF candidates # {} THEN unit.chosen \in candidates
            ELSE IF images # {}
                 THEN unit.chosen \in images /\ \A k \in images : unit.chosen <= k
                 ELSE unit.chosen = 0


(***************************************************************************)
(* Properties of the workflow as a whole.                                  *)
(***************************************************************************)
\* the album information has been sent to the channel as a plain text message
AlbumInfoAsText(t) == \E k \in 1..Len(channel[t]) : channel[t][k].kind = "album_info"

\* C21: a workflow in which no call to Telegram or to the catalog failed does not
\* enter the except clause (the album-level error) before its first track, with
\* or without an image file in the item; when it has no cover bytes the album
\* information has been sent as text before the first track, and when it sends
\* "Album upload finished" every track of the group has been published.
C21_NoCoverIsNotFatal ==
    \A t \in TaskIds :
        (Workflow(t) /\ ~tasks[t].extFailed /\ tasks[t].cancelAt = NoCancel) =>
            /\ tasks[t].i = 0 => tasks[t].pc # "cb_edit_error"
            /\ (tasks[t].i >= 1 /\ ~tasks[t].cover) => AlbumInfoAsText(t)
            /\ (tasks[t].pc = "cb_edit_finished" /\ ~tasks[t].cover) =>
                   PublishedTracks(t) = [k \in 1..Len(tasks[t].files) |-> k]


C23_StaleSessionIsNotFound ==
    [][\A t \in TaskIds :
          (/\ tasks[t].h = "idle" /\ tasks'[t].h = "callback"
           /\ tasks'[t].user \in DOMAIN user_sessions
           /\ user_sessions[tasks'[t].user] \in elapsed) =>
              /\ tasks'[t].pc = "cb_answer_expired"
              /\ ~tasks'[t].started]_vars


\* the tracks a handler invocation has asked the catalog for
RequestedTracks(t) == {requests[t][k].track : k \in 1..Len(requests[t])}

\* C24: no two workflows of one session are in flight together, and two
\* workflows of one session and one format never fetch the same track.
C24_OneWorkflowPerSession ==
    \A t, s \in TaskIds :
        (t # s /\ Workflow(t) /\ Workflow(s)) =>
            /\ tasks[t].session # tasks[s].session
            /\ (tasks[t].user = tasks[s].user /\ tasks[t].data = tasks[s].data) =>
                   RequestedTracks(t) \cap RequestedTracks(s) = {}


\* C25: a step of a workflow removes no session but the one the workflow was
\* started from: a session stored by a later /download of the same user stays
\* in the store, as it was stored, when the earlier workflow ends.
C25_EndRemovesOwnSessionOnly ==
    [][\A t \in TaskIds :
          (Workflow(t) /\ tasks'[t] # tasks[t]) =>
              \A u \in DOMAIN user_sessions :
                  user_sessions[u] # tasks[t].session =>
                      /\ u \in DOMAIN user_sessions'
                      /\ user_sessions'[u] = user_sessions[u]]_vars


\* the session a /download command stored
StoredBy(t) ==
    /\ tasks[t].user \in DOMAIN user_sessions
    /\ user_sessions[tasks[t].user].message_id = t

\* C27: while a /download command answers with an error (the usage text,
\* "Unable to fetch metadata", "No downloadable formats found", or the error of
\* its except clause) no session stored by that command is in the store.
C27_ErrorAnswerLeavesNoSession ==
    \A t \in TaskIds :
        (/\ tasks[t].h = "download"
         /\ tasks[t].pc \in {"dl_respond_usage", "dl_edit", "dl_edit_error"}
         /\ tasks[t].pending \in {"usage", "unable", "no_formats", "error"}) =>
            ~StoredBy(t)


\* C26: a call of upload_file sends the file at most once, and when it has sent
\* it the call ends there with True; a workflow publishes no track twice, a
\* track it marked failed is not among the published ones, and the call whose
\* failure is being shown to the user has sent nothing.
C26_TrackPublishedAtMostOnce ==
    /\ Cardinality(SignalsAt("sent")) <= 1
    /\ SignalsAt("sent") # {} =>
           /\ up.log[Len(up.log)].ev = "sent"
           /\ up.pc \in {"done", "idle"}
           /\ up.result = "True"
    /\ \A t \in TaskIds :
           /\ \A j, k \in 1..Len(PublishedTracks(t)) :
                  j # k => PublishedTracks(t)[j] # PublishedTracks(t)[k]
           /\ \A k \in 1..Len(tasks[t].status) :
                  tasks[t].status[k] \in {"failed", "fetch_failed"} =>
                      \A j \in 1..Len(PublishedTracks(t)) : PublishedTracks(t)[j] # k
           /\ At(t, "cb_edit_failed_upload") => SignalsAt("sent") = {}

\* the first track failed and was shown as failed; the second was published by
\* the retry that followed a FloodWaitError of send_file and its sleep
C26_Witness ==
    \E t \in TaskIds :
        /\ Len(tasks[t].status) = 2
        /\ tasks[t].status[1] = "failed"
        /\ tasks[t].status[2] = "published"
        /\ PublishedTracks(t) = <<2>>
        /\ up.pc = "idle"
        /\ up.result = "True"
        /\ \E k \in SignalsAt("FloodWaitError") : up.log[k].n > 0
        /\ SignalsAt("sleep") # {}
        /\ SignalsAt("sent") # {}

====
